---- MODULE Spec2Model ----
(***************************************************************************)
(* Model of patroni/api.py: the REST API handler (routing, basic auth,     *)
(* status aggregation, restart / reinitialize) and the server's auth       *)
(* check.  Strings are sequences of one-character strings, so that the     *)
(* code's lstrip, split, startswith, slicing, concatenation and substring  *)
(* tests are computed as the code computes them.                           *)
(*                                                                         *)
(* Specifications:                                                         *)
(*   Spec        one connection, any request of Requests, with the         *)
(*               orchestrator and the node changing at any time;           *)
(*   RouterSpec  parse_request and the handler lookup on AllRequests;      *)
(*   AuthSpec    the credential check on AllAuthConfigs x AllHeaders;      *)
(*   ConcSpec    probes and a restart on two concurrent connections;       *)
(*   BlockSpec   two connections, the first taking the requests that can   *)
(*               block, with nothing else changing the node;               *)
(*   BlockFairSpec  BlockSpec with the other connection's thread           *)
(*               scheduled and the first free to stay blocked.             *)
(* The per-thread variable `calls` records what each call of a handler     *)
(* into the server, the orchestrator and the node returned; a call of the  *)
(* server's query primitive also records the data-source outcome it met    *)
(* and what it left open.                                                  *)
(***************************************************************************)
EXTENDS Integers, Sequences, FiniteSets, TLC

(* ------------------------------------------------------------------ *)
(* String literals of the source, spelled character by character.      *)
(* ------------------------------------------------------------------ *)
M_GET == <<"G", "E", "T">>
M_POST == <<"P", "O", "S", "T">>
M_PUT == <<"P", "U", "T">>
M_POST_restart == <<"P", "O", "S", "T", "_", "r", "e", "s", "t", "a", "r", "t">>
M_GET_patroni == <<"G", "E", "T", "_", "p", "a", "t", "r", "o", "n", "i">>
N_do_GET == <<"d", "o", "_", "G", "E", "T">>
N_do_GET_patroni == <<"d", "o", "_", "G", "E", "T", "_", "p", "a", "t", "r", "o", "n", "i">>
N_do_POST_restart == <<"d", "o", "_", "P", "O", "S", "T", "_", "r", "e", "s", "t", "a", "r", "t">>
N_do_POST_reinitialize ==
    <<"d", "o", "_", "P", "O", "S", "T", "_", "r", "e", "i", "n", "i", "t", "i", "a", "l", "i",
    "z", "e">>
P_root == <<"/">>
P_master == <<"/", "m", "a", "s", "t", "e", "r">>
P_replica == <<"/", "r", "e", "p", "l", "i", "c", "a">>
P_patroni == <<"/", "p", "a", "t", "r", "o", "n", "i">>
P_restart == <<"/", "r", "e", "s", "t", "a", "r", "t">>
P_reinitialize == <<"/", "r", "e", "i", "n", "i", "t", "i", "a", "l", "i", "z", "e">>
P_slashes_patroni == <<"/", "/", "p", "a", "t", "r", "o", "n", "i">>
P_patroni_sub == <<"/", "p", "a", "t", "r", "o", "n", "i", "/", "x">>
P_restart_sub == <<"/", "r", "e", "s", "t", "a", "r", "t", "/", "n", "o", "w">>
P_bare_patroni == <<"p", "a", "t", "r", "o", "n", "i">>
P_other == <<"/", "x">>
P_other_patroni == <<"/", "x", "/", "p", "a", "t", "r", "o", "n", "i">>
P_patroni_query == <<"/", "p", "a", "t", "r", "o", "n", "i", "?", "x">>
P_double == <<"/", "/">>
P_masterplan == <<"/", "m", "a", "s", "t", "e", "r", "p", "l", "a", "n">>
R_master == <<"m", "a", "s", "t", "e", "r">>
R_replica == <<"r", "e", "p", "l", "i", "c", "a">>
A_restart == <<"r", "e", "s", "t", "a", "r", "t">>
A_reinitialize == <<"r", "e", "i", "n", "i", "t", "i", "a", "l", "i", "z", "e">>
BasicPrefix == <<"B", "a", "s", "i", "c", " ">>
LowerBasicPrefix == <<"b", "a", "s", "i", "c", " ">>
BasicNoSpace == <<"B", "a", "s", "i", "c">>
B_already ==
    <<" ", "a", "l", "r", "e", "a", "d", "y", " ", "i", "n", " ", "p", "r", "o", "g", "r", "e",
    "s", "s">>
B_restart_failed == <<"r", "e", "s", "t", "a", "r", "t", " ", "f", "a", "i", "l", "e", "d">>
B_restarted ==
    <<"r", "e", "s", "t", "a", "r", "t", "e", "d", " ", "s", "u", "c", "c", "e", "s", "s", "f",
    "u", "l", "l", "y">>
B_no_leader ==
    <<"C", "l", "u", "s", "t", "e", "r", " ", "h", "a", "s", " ", "n", "o", " ", "l", "e", "a",
    "d", "e", "r", ",", " ", "c", "a", "n", " ", "n", "o", "t", " ", "r", "e", "i", "n", "i",
    "t", "i", "a", "l", "i", "z", "e">>
B_i_am_leader ==
    <<"I", " ", "a", "m", " ", "t", "h", "e", " ", "l", "e", "a", "d", "e", "r", ",", " ", "c",
    "a", "n", " ", "n", "o", "t", " ", "r", "e", "i", "n", "i", "t", "i", "a", "l", "i", "z",
    "e">>
B_reinit_scheduled ==
    <<"r", "e", "i", "n", "i", "t", "i", "a", "l", "i", "z", "e", " ", "s", "c", "h", "e", "d",
    "u", "l", "e", "d">>
B_no_auth_header ==
    <<"n", "o", " ", "a", "u", "t", "h", " ", "h", "e", "a", "d", "e", "r", " ", "r", "e", "c",
    "e", "i", "v", "e", "d">>
B_not_authenticated ==
    <<"n", "o", "t", " ", "a", "u", "t", "h", "e", "n", "t", "i", "c", "a", "t", "e", "d">>
Sec_empty == <<>>
Sec_a == <<"a">>
Sec_a_colon == <<"a", ":">>
Sec_ab == <<"a", ":", "b">>
Sec_abab == <<"a", ":", "b", "a">>
B64Alphabet ==
    <<"A", "B", "C", "D", "E", "F", "G", "H", "I", "J", "K", "L", "M", "N", "O", "P", "Q", "R",
    "S", "T", "U", "V", "W", "X", "Y", "Z", "a", "b", "c", "d", "e", "f", "g", "h", "i", "j",
    "k", "l", "m", "n", "o", "p", "q", "r", "s", "t", "u", "v", "w", "x", "y", "z", "0", "1",
    "2", "3", "4", "5", "6", "7", "8", "9", "+", "/">>

\* Python's None: a one-element tuple that is no string of characters.
None == <<"None">>

(* ------------------------------------------------------------------ *)
(* String primitives used by the code.                                 *)
(* ------------------------------------------------------------------ *)
\* s[n:] for 0 <= n (Python slice from index n to the end)
SliceFrom(s, n) == IF n >= Len(s) THEN <<>> ELSE SubSeq(s, n + 1, Len(s))

\* s.startswith(p)
StartsWith(s, p) == Len(s) >= Len(p) /\ SubSeq(s, 1, Len(p)) = p

\* sub in s (substring containment)
Contains(sub, s) ==
    \E i \in 0..(Len(s) - Len(sub)) : SubSeq(s, i + 1, i + Len(sub)) = sub

\* s.lstrip(c): drop every leading occurrence of the character c
RECURSIVE Lstrip(_, _)
Lstrip(s, c) == IF s # <<>> /\ Head(s) = c THEN Lstrip(Tail(s), c) ELSE s

\* s.split(c)[0]: the characters before the first occurrence of c
RECURSIVE SplitFirst(_, _)
SplitFirst(s, c) ==
    IF s = <<>> \/ Head(s) = c THEN <<>> ELSE <<Head(s)>> \o SplitFirst(Tail(s), c)

\* truth value of a str-or-None in a Python condition
Truthy(x) == x # None /\ x # <<>>

(* ------------------------------------------------------------------ *)
(* base64.b64encode(secret.encode('utf-8')).decode('utf-8')            *)
(* ------------------------------------------------------------------ *)
\* str.encode('utf-8') on the ASCII characters the configured secrets use
Ord(c) == CASE c = "a" -> 97 [] c = "b" -> 98 [] c = ":" -> 58
Utf8Encode(s) == [i \in 1..Len(s) |-> Ord(s[i])]

\* the base64 digit of a 6-bit value, already decoded to a character
B64Char(v) == B64Alphabet[v + 1]

RECURSIVE B64Encode(_)
B64Encode(b) ==
    IF Len(b) = 0 THEN <<>>
    ELSE IF Len(b) = 1 THEN
        << B64Char(b[1] \div 4), B64Char((b[1] % 4) * 16), "=", "=" >>
    ELSE IF Len(b) = 2 THEN
        << B64Char(b[1] \div 4), B64Char((b[1] % 4) * 16 + (b[2] \div 16)),
           B64Char((b[2] % 16) * 4), "=" >>
    ELSE
        << B64Char(b[1] \div 4), B64Char((b[1] % 4) * 16 + (b[2] \div 16)),
           B64Char((b[2] % 16) * 4 + (b[3] \div 64)), B64Char(b[3] % 64) >>
        \o B64Encode(SubSeq(b, 4, Len(b)))

(* ------------------------------------------------------------------ *)
(* Bounds and input sets.                                              *)
(* ------------------------------------------------------------------ *)
\* attempts the retrying query makes before it gives up
MaxTries == 2

\* handler threads of the ThreadingMixIn server (one per connection)
Threads == {"t1", "t2"}
FirstThread == "t1"

\* config['auth'] values; None stands for a config without the 'auth' key
Secrets == {Sec_empty, Sec_a, Sec_a_colon, Sec_ab, Sec_abab}
AuthConfigs == {None, Sec_empty, Sec_ab}
AllAuthConfigs == {None} \cup Secrets

\* the methods the handler class defines (hasattr(self, name) is true)
HandlerNames == {N_do_GET, N_do_GET_patroni, N_do_POST_restart, N_do_POST_reinitialize}
GuardedHandlers == {N_do_POST_restart, N_do_POST_reinitialize}

\* Authorization header values a client may send (None: header absent)
Credential(secret) == B64Encode(Utf8Encode(secret))
AllHeaders ==
    {None, <<>>, BasicPrefix, BasicNoSpace}
    \cup {BasicPrefix \o Credential(x) : x \in Secrets}
    \cup {LowerBasicPrefix \o Credential(x) : x \in Secrets}
    \cup {BasicNoSpace \o Credential(x) : x \in Secrets}
    \cup {Credential(x) : x \in Secrets}
    \cup {BasicPrefix \o Credential(x) \o <<"=">> : x \in Secrets}
    \cup {BasicPrefix \o <<" ">> \o Credential(x) : x \in Secrets}
Headers == {None, BasicPrefix, BasicPrefix \o Credential(Sec_ab), BasicPrefix \o Credential(Sec_a)}

AllMethods == {M_GET, M_POST, M_PUT, M_POST_restart, M_GET_patroni}
AllPaths ==
    {P_root, P_master, P_replica, P_patroni, P_restart, P_reinitialize,
     P_slashes_patroni, P_patroni_sub, P_restart_sub, P_bare_patroni, P_other,
     P_other_patroni, P_patroni_query, P_double, P_masterplan}

Request(v, m, p, h) == [valid |-> v, command |-> m, path |-> p, header |-> h]
NoRequest == Request(FALSE, <<>>, <<>>, None)

\* requests of the served routes, with and without credentials, plus the
\* requests that reach a handler by another way or reach none
Requests ==
    {Request(TRUE, M_GET, p, None) : p \in {P_root, P_master, P_replica, P_patroni}}
    \cup {Request(TRUE, M_POST, p, h) : p \in {P_restart, P_reinitialize}, h \in Headers}
    \cup {Request(TRUE, M_POST_restart, P_root, h) : h \in {None, BasicPrefix \o Credential(Sec_ab)}}
    \cup {Request(TRUE, M_GET_patroni, P_root, None), Request(TRUE, M_PUT, P_restart, None),
          Request(TRUE, M_POST, P_root, None), Request(FALSE, M_GET, P_root, None)}

\* every request line the router is checked on
AllRequests ==
    {Request(TRUE, m, p, None) : m \in AllMethods, p \in AllPaths}
    \cup {Request(FALSE, M_GET, P_root, None)}

\* rows the diagnostic query can return:
\* <<start time, in recovery, write location, received, replayed, paused>>
Locations == {"0/3000060", "0/3000148"}
StartTime == "2015-01-01 00:00:00.000 UTC"
Null == "NULL"
Rows ==
    {<<StartTime, FALSE, l, Null, Null, FALSE>> : l \in Locations}
    \cup {<<StartTime, TRUE, Null, r, y, p>> : r \in Locations, y \in {"0/3000060"}, p \in BOOLEAN}

NodeStates == {"running", "stopped"}
Roles == {R_master, R_replica}
Actions == {A_restart, A_reinitialize}

\* names of the cluster members; this node is ThisNode
ThisNode == <<"n", "1">>
OtherNode == <<"n", "2">>
ClusterViews == {[leader |-> n] : n \in {None, ThisNode, OtherNode}}

VARIABLES
    auth_config,       \* config.get('auth'), None when the key is missing
    auth_key,          \* RestApiServer._auth_key
    scheduled_action,  \* the orchestrator's pending action, None when there is none
    pg_role,           \* patroni.postgresql.role
    pg_state,          \* patroni.postgresql.state
    pc,                \* per thread: where its request handler stands
    req,               \* per thread: the request line and Authorization header
    command,           \* per thread: self.command
    auth,              \* per thread: result of the server's check_auth_header
    attempts,          \* per thread: failed tries of the retrying query
    calls,             \* per thread: calls into the server, orchestrator and node, with results
    resp,              \* per thread: status lines, headers and bodies written
    exc                \* per thread: exception that escaped the handler

vars == << auth_config, auth_key, scheduled_action, pg_role, pg_state,
           pc, req, command, auth, attempts, calls, resp, exc >>
server_vars == << auth_config, auth_key >>
node_vars == << scheduled_action, pg_role, pg_state >>

Unchecked == <<"unchecked">>
NoException == "none"

(* ------------------------------------------------------------------ *)
(* RestApiServer: construction and the credential check.               *)
(* ------------------------------------------------------------------ *)
\* __init__: self._auth_key
InitAuthKey(config) == IF config # None THEN Credential(config) ELSE None

\* check_basic_auth_key(key)
check_basic_auth_key(key) == auth_key = key

\* a check that does not look at whether a key is configured
Server_check_auth_header_always(auth_header) ==
    IF auth_header = None
    THEN B_no_auth_header
    ELSE IF ~StartsWith(auth_header, BasicPrefix)
            \/ ~check_basic_auth_key(SliceFrom(auth_header, 6))
         THEN B_not_authenticated
         ELSE None

\* RestApiServer.check_auth_header(auth_header): the challenge text, or None
Server_check_auth_header(auth_header) ==
    IF Truthy(auth_key)
    THEN IF auth_header = None
         THEN B_no_auth_header
         ELSE IF ~StartsWith(auth_header, BasicPrefix)
                 \/ ~check_basic_auth_key(SliceFrom(auth_header, 6))
              THEN B_not_authenticated
              ELSE None
    ELSE None

(* ------------------------------------------------------------------ *)
(* RestApiServer.query: one use of the data source.                    *)
(* ------------------------------------------------------------------ *)
\* where a psycopg2.Error can arise inside the with-statement
QueryStages == {"connection", "cursor", "execute", "fetch"}

\* what the data source does to one query
DataSourceOutcomes ==
    {[kind |-> "rows", row |-> r] : r \in Rows}
    \cup {[kind |-> "psycopg2.Error", stage |-> st, closed |-> c] :
              st \in QueryStages, c \in BOOLEAN}
    \cup {[kind |-> "Exception"]}

\* the name `cursor` is bound once the with-statement has entered
CursorBound(o) == o.stage \in {"execute", "fetch"}

\* a query primitive that looks at the connection only
Server_query_by_closed_only(o) ==
    CASE o.kind = "rows" -> [raised |-> NoException, row |-> o.row]
      [] o.kind = "psycopg2.Error" ->
            IF ~o.closed THEN [raised |-> "psycopg2.Error"]
            ELSE [raised |-> "PostgresConnectionException"]
      [] OTHER -> [raised |-> "Exception"]

\* RestApiServer.query: rows returned or the exception raised
Server_query(o) ==
    CASE o.kind = "rows" -> [raised |-> NoException, row |-> o.row]
      [] o.kind = "psycopg2.Error" ->
            IF CursorBound(o) /\ ~o.closed
            THEN [raised |-> "psycopg2.Error"]
            ELSE [raised |-> "PostgresConnectionException"]
      [] OTHER -> [raised |-> "Exception"]

(* ------------------------------------------------------------------ *)
(* RestApiHandler: routing.                                            *)
(* ------------------------------------------------------------------ *)
DoPrefix == <<"d", "o", "_">>

\* a router that splits the path without stripping the leading slashes
RouteCommand_no_lstrip(cmd, path) ==
    LET first == SplitFirst(path, "/")
        mname == cmd \o (IF first # <<>> THEN <<"_">> \o first ELSE <<>>)
    IN  IF (DoPrefix \o mname) \in HandlerNames THEN mname ELSE cmd

\* parse_request: the value of self.command after a successful parse
RouteCommand(cmd, path) ==
    LET first == SplitFirst(Lstrip(path, "/"), "/")
        mname == cmd \o (IF first # <<>> THEN <<"_">> \o first ELSE <<>>)
    IN  IF (DoPrefix \o mname) \in HandlerNames THEN mname ELSE cmd

\* BaseHTTPRequestHandler.handle_one_request: the method it looks up
HandlerOf(t) == DoPrefix \o command[t]

(* ------------------------------------------------------------------ *)
(* RestApiHandler: the status record.                                  *)
(* ------------------------------------------------------------------ *)
\* a dict whose xlog always carries the replica's fields
StatusFromRow_replica_xlog(row, state) ==
    [state |-> state,
     postmaster_start_time |-> row[1],
     role |-> IF row[2] THEN R_replica ELSE R_master,
     xlog |-> [received_location |-> row[4],
               replayed_location |-> row[5],
               paused |-> row[6]]]

\* get_postgresql_status: the dict built from the row
StatusFromRow(row, state) ==
    [state |-> state,
     postmaster_start_time |-> row[1],
     role |-> IF row[2] THEN R_replica ELSE R_master,
     xlog |-> IF row[2]
              THEN [received_location |-> row[4],
                    replayed_location |-> row[5],
                    paused |-> row[6]]
              ELSE [location |-> row[3]]]

\* get_postgresql_status: the dict of the except branch
StatusOnFailure(state) == [state |-> state]

\* an except clause that forgets the retrier's own error
CaughtByStatus_without_RetryFailedError == {"psycopg2.Error", "PostgresConnectionException"}

\* the exceptions get_postgresql_status catches
CaughtByStatus == {"psycopg2.Error", "RetryFailedError", "PostgresConnectionException"}

\* a probe path that is not aliased
ProbePath_no_alias(path) == path

\* do_GET: the path the role is looked up in
ProbePath(path) == IF path = P_root THEN P_master ELSE path

\* do_GET: first branch of the status code decision
RoleMatchesPath(response, path) ==
    "role" \in DOMAIN response /\ Contains(response.role, ProbePath(path))

\* an override that does not look at the path
RestartOverride_any_path(scheduled, role, path) == scheduled /\ role = R_master

\* do_GET: the elif branch, given what restart_scheduled() and postgresql.role gave
RestartOverride(scheduled, role, path) ==
    scheduled /\ role = R_master /\ Contains(R_master, ProbePath(path))

(* ------------------------------------------------------------------ *)
(* Bookkeeping shared by the actions.                                  *)
(* ------------------------------------------------------------------ *)
Response(code, headers, body) == [code |-> code, headers |-> headers, body |-> body]
JsonHeaders == {<<"Content-Type", "application/json">>}
HtmlHeaders == {<<"Content-Type", "text/html">>}
ChallengeHeaders ==
    {<<"WWW-Authenticate", "Basic realm=\"Patroni\"">>, <<"Content-type", "text/html">>}
Json(record) == [json |-> record]
\* a call that returned `ret`, and a call that raised
Call(op, ret) == [op |-> op, raised |-> FALSE, ret |-> ret]
CallRaised(op) == [op |-> op, raised |-> TRUE]

\* the handler returns: `sent` is written to the connection, `made` are the
\* calls it made on the way, `e` the exception that escaped it (if any)
Return(t, sent, made, e) ==
    /\ pc' = [pc EXCEPT ![t] = "done"]
    /\ resp' = [resp EXCEPT ![t] = @ \o sent]
    /\ calls' = [calls EXCEPT ![t] = @ \o made]
    /\ exc' = [exc EXCEPT ![t] = e]

\* the handler goes on to `next`
Goto(t, next, made) ==
    /\ pc' = [pc EXCEPT ![t] = next]
    /\ calls' = [calls EXCEPT ![t] = @ \o made]
    /\ UNCHANGED << resp, exc >>

IdleThreads ==
    /\ pc = [t \in Threads |-> "idle"]
    /\ req = [t \in Threads |-> NoRequest]
    /\ command = [t \in Threads |-> None]
    /\ auth = [t \in Threads |-> Unchecked]
    /\ attempts = [t \in Threads |-> 0]
    /\ calls = [t \in Threads |-> <<>>]
    /\ resp = [t \in Threads |-> <<>>]
    /\ exc = [t \in Threads |-> NoException]

\* the server after RestApiServer.__init__, the node in any state
Init ==
    /\ auth_config \in AuthConfigs
    /\ auth_key = InitAuthKey(auth_config)
    /\ scheduled_action = None
    /\ pg_role \in Roles
    /\ pg_state \in NodeStates
    /\ IdleThreads

(* ------------------------------------------------------------------ *)
(* One request on one connection thread.                               *)
(* ------------------------------------------------------------------ *)
\* a server without ThreadingMixIn: the next request is read only when
\* no other request is being handled
Receive_one_at_a_time(t, offered) ==
    /\ pc[t] = "idle"
    /\ \A u \in Threads \ {t} : pc[u] = "idle"
    /\ \E r \in offered : req' = [req EXCEPT ![t] = r]
    /\ pc' = [pc EXCEPT ![t] = "received"]
    /\ UNCHANGED << server_vars, node_vars, command, auth, attempts, calls, resp, exc >>

\* a request line and its headers arrive on the thread's connection
Receive(t, offered) ==
    /\ pc[t] = "idle"
    /\ \E r \in offered : req' = [req EXCEPT ![t] = r]
    /\ pc' = [pc EXCEPT ![t] = "received"]
    /\ UNCHANGED << server_vars, node_vars, command, auth, attempts, calls, resp, exc >>

\* RestApiHandler.parse_request; a request line the base class rejects is
\* answered by the base class (400) and no handler runs
parse_request(t) ==
    /\ pc[t] = "received"
    /\ IF req[t].valid
       THEN /\ command' = [command EXCEPT ![t] = RouteCommand(req[t].command, req[t].path)]
            /\ pc' = [pc EXCEPT ![t] = "parsed"]
            /\ UNCHANGED << resp, calls, exc >>
       ELSE /\ Return(t, << Response(400, {}, <<>>) >>, <<>>, NoException)
            /\ UNCHANGED command
    /\ UNCHANGED << server_vars, node_vars, req, auth, attempts >>

\* handle_one_request when the class has no method do_<command>
send_error_501(t) ==
    /\ pc[t] = "parsed"
    /\ HandlerOf(t) \notin HandlerNames
    /\ Return(t, << Response(501, {}, <<>>) >>, <<>>, NoException)
    /\ UNCHANGED << server_vars, node_vars, req, command, auth, attempts >>

\* a wrapper that sends the challenge and calls the wrapped method all the same
check_auth_calls_anyway(t) ==
    /\ pc[t] = "parsed"
    /\ HandlerOf(t) \in GuardedHandlers
    /\ LET status == Server_check_auth_header(req[t].header)
       IN  /\ auth' = [auth EXCEPT ![t] = status]
           /\ pc' = [pc EXCEPT ![t] = "authorized"]
           /\ resp' = [resp EXCEPT ![t] =
                         IF Truthy(status)
                         THEN @ \o << Response(401, ChallengeHeaders, status) >>
                         ELSE @]
           /\ UNCHANGED << calls, exc >>
    /\ UNCHANGED << server_vars, node_vars, req, command, attempts >>

\* the wrapper of check_auth with RestApiHandler.check_auth_header and
\* send_auth_request: the wrapped method runs only if the check passed
check_auth(t) ==
    /\ pc[t] = "parsed"
    /\ HandlerOf(t) \in GuardedHandlers
    /\ LET status == Server_check_auth_header(req[t].header)
       IN  /\ auth' = [auth EXCEPT ![t] = status]
           /\ IF ~Truthy(status)
              THEN Goto(t, "authorized", <<>>)
              ELSE Return(t, << Response(401, ChallengeHeaders, status) >>, <<>>, NoException)
    /\ UNCHANGED << server_vars, node_vars, req, command, attempts >>

\* do_GET up to the diagnostic query (retry=False)
do_GET(t) ==
    /\ pc[t] = "parsed"
    /\ HandlerOf(t) = N_do_GET
    /\ Goto(t, "query", <<>>)
    /\ UNCHANGED << server_vars, node_vars, req, command, auth, attempts >>

\* do_GET_patroni up to the diagnostic query (retry=True)
do_GET_patroni(t) ==
    /\ pc[t] = "parsed"
    /\ HandlerOf(t) = N_do_GET_patroni
    /\ Goto(t, "query", <<>>)
    /\ UNCHANGED << server_vars, node_vars, req, command, auth, attempts >>

\* Retry(delay=2, retry_exceptions=PostgresConnectionException) around one
\* try that ended with `raised`, after `failed` failed tries: what comes next
RetryStep(retry, raised, failed) ==
    IF retry /\ raised = "PostgresConnectionException"
    THEN IF failed + 1 >= MaxTries THEN "RetryFailedError" ELSE "sleep"
    ELSE raised

\* a do_GET without the elif branch for a restart in progress
do_GET_respond_without_override(t, response, made) ==
    Return(t, << Response(IF RoleMatchesPath(response, req[t].path) THEN 200 ELSE 503,
                          JsonHeaders, Json(response)) >>, made, NoException)

\* do_GET after get_postgresql_status returned `response`
do_GET_respond(t, response, made) ==
    IF RoleMatchesPath(response, req[t].path)
    THEN Return(t, << Response(200, JsonHeaders, Json(response)) >>, made, NoException)
    ELSE \/ Return(t, <<>>, made \o << CallRaised("restart_scheduled") >>, "Exception")
         \/ LET scheduled == scheduled_action = A_restart
                seen == made \o << Call("restart_scheduled", scheduled) >>
                        \o (IF scheduled THEN << Call("postgresql.role", pg_role) >> ELSE <<>>)
                code == IF RestartOverride(scheduled, pg_role, req[t].path) THEN 200 ELSE 503
            IN  Return(t, << Response(code, JsonHeaders, Json(response)) >>, seen, NoException)

\* a /patroni answer that reports a failed query as 503
do_GET_patroni_respond_503_on_failure(t, response, made) ==
    Return(t, << Response(IF "role" \in DOMAIN response THEN 200 ELSE 503,
                          JsonHeaders, Json(response)) >>, made, NoException)

\* do_GET_patroni after get_postgresql_status returned `response`
do_GET_patroni_respond(t, response, made) ==
    Return(t, << Response(200, JsonHeaders, Json(response)) >>, made, NoException)

\* get_postgresql_status once self.query ended with `ended` (and `row`) after
\* the tries `tried`, then the rest of the handler that called it
get_postgresql_status(t, ended, row, tried) ==
    IF ended \notin CaughtByStatus \cup {NoException}
    THEN Return(t, <<>>, tried, ended)
    ELSE LET response == IF ended = NoException
                         THEN StatusFromRow(row, pg_state)
                         ELSE StatusOnFailure(pg_state)
             made == tried \o << Call("postgresql.state", pg_state) >>
         IN  IF HandlerOf(t) = N_do_GET_patroni
             THEN do_GET_patroni_respond(t, response, made)
             ELSE do_GET_respond(t, response, made)

\* RestApiServer.query: what the call obtained from the data source before
\* it ended; an outcome that is no data-source error arises with the
\* connection and the cursor at hand
Acquired(o) ==
    CASE o.kind = "psycopg2.Error" /\ o.stage = "connection" -> {}
      [] o.kind = "psycopg2.Error" /\ o.stage = "cursor" -> {"connection"}
      [] OTHER -> {"connection", "cursor"}

\* the data source itself closed the connection
ClosedByDataSource(o) ==
    IF o.kind = "psycopg2.Error" /\ o.closed THEN {"connection"} ELSE {}

\* a query primitive that closes its cursor after reading the rows instead
\* of using a with statement
HeldAfterQuery_close_on_success(o) ==
    IF o.kind = "rows"
    THEN (Acquired(o) \ {"cursor"}) \ ClosedByDataSource(o)
    ELSE Acquired(o) \ ClosedByDataSource(o)

\* RestApiServer.query: what is still open when the call has ended; the
\* with statement closes the cursor on every exit, nothing closes the
\* connection
HeldAfterQuery(o) == (Acquired(o) \ {"cursor"}) \ ClosedByDataSource(o)

\* what one call of the server's query primitive leaves in the log: the
\* data-source outcome it met and what it returned or raised
QueryCall(o) ==
    [op |-> "server.query", raised |-> FALSE, ret |-> Server_query(o), outcome |-> o,
     held |-> HeldAfterQuery(o)]

\* a handler that retries the status query of every route
query_always_retries(t) ==
    /\ pc[t] = "query"
    /\ \E o \in DataSourceOutcomes :
          LET r == Server_query(o)
              next == RetryStep(TRUE, r.raised, attempts[t])
          IN  IF next = "sleep"
              THEN /\ attempts' = [attempts EXCEPT ![t] = @ + 1]
                   /\ Goto(t, "sleep", << QueryCall(o) >>)
              ELSE /\ UNCHANGED attempts
                   /\ get_postgresql_status(t, next, IF next = NoException THEN r.row ELSE <<>>,
                                            << QueryCall(o), Call("query", next) >>)
    /\ UNCHANGED << server_vars, node_vars, req, command, auth >>

\* RestApiHandler.query: one try of the server's query primitive; the log
\* entry "query" records how RestApiHandler.query itself ended
query(t) ==
    /\ pc[t] = "query"
    /\ \E o \in DataSourceOutcomes :
          LET r == Server_query(o)
              next == RetryStep(HandlerOf(t) = N_do_GET_patroni, r.raised, attempts[t])
          IN  IF next = "sleep"
              THEN /\ attempts' = [attempts EXCEPT ![t] = @ + 1]
                   /\ Goto(t, "sleep", << QueryCall(o) >>)
              ELSE /\ UNCHANGED attempts
                   /\ get_postgresql_status(t, next, IF next = NoException THEN r.row ELSE <<>>,
                                            << QueryCall(o), Call("query", next) >>)
    /\ UNCHANGED << server_vars, node_vars, req, command, auth >>

\* the retry delay has passed
retry_delay(t) ==
    /\ pc[t] = "sleep"
    /\ Goto(t, "query", <<>>)
    /\ UNCHANGED << server_vars, node_vars, req, command, auth, attempts >>

\* a handler that restarts whatever schedule_restart returned
do_POST_restart_ignores_pending(t) ==
    /\ pc[t] = "authorized"
    /\ HandlerOf(t) = N_do_POST_restart
    /\ scheduled_action' = A_restart
    /\ Goto(t, "restart", << Call("schedule_restart", scheduled_action) >>)
    /\ UNCHANGED << server_vars, pg_role, pg_state, req, command, auth, attempts >>

\* do_POST_restart (the wrapped method) up to the call of ha.restart()
do_POST_restart(t) ==
    /\ pc[t] = "authorized"
    /\ HandlerOf(t) = N_do_POST_restart
    /\ \/ /\ Return(t, <<>>, << CallRaised("schedule_restart") >>, "Exception")
          /\ UNCHANGED scheduled_action
       \/ /\ scheduled_action # None
          /\ Return(t, << Response(503, HtmlHeaders, scheduled_action \o B_already) >>,
                    << Call("schedule_restart", scheduled_action) >>, NoException)
          /\ UNCHANGED scheduled_action
       \/ /\ scheduled_action = None
          /\ scheduled_action' = A_restart
          /\ Goto(t, "restart", << Call("schedule_restart", None) >>)
    /\ UNCHANGED << server_vars, pg_role, pg_state, req, command, auth, attempts >>

\* what ha.restart() can do: return True, return False, raise
RestartOutcomes == {"True", "False", "raised"}

\* a handler whose call of ha.restart() is not wrapped in try/except
restart_without_except(t) ==
    /\ pc[t] = "restart"
    /\ \E o \in RestartOutcomes :
          IF o = "raised"
          THEN Return(t, <<>>, << CallRaised("restart") >>, "Exception")
          ELSE Return(t, << Response(IF o = "True" THEN 200 ELSE 503, HtmlHeaders,
                                     IF o = "True" THEN B_restarted ELSE B_restart_failed) >>,
                      << Call("restart", o = "True") >>, NoException)
    /\ scheduled_action' = IF scheduled_action = A_restart THEN None ELSE scheduled_action
    /\ UNCHANGED << server_vars, pg_role, pg_state, req, command, auth, attempts >>

\* do_POST_restart from the return of ha.restart() to the response
restart(t) ==
    /\ pc[t] = "restart"
    /\ \E o \in RestartOutcomes :
          LET code == IF o = "True" THEN 200 ELSE 503
              data == IF o = "True" THEN B_restarted ELSE B_restart_failed
          IN  Return(t, << Response(code, HtmlHeaders, data) >>,
                     << IF o = "raised" THEN CallRaised("restart")
                                        ELSE Call("restart", o = "True") >>,
                     NoException)
    /\ scheduled_action' = IF scheduled_action = A_restart THEN None ELSE scheduled_action
    /\ UNCHANGED << server_vars, pg_role, pg_state, req, command, auth, attempts >>

\* a handler that refuses only a cluster without a leader
ReinitializeRefusal_unlocked_only(cluster) ==
    IF cluster.leader = None THEN B_no_leader ELSE None

\* do_POST_reinitialize: the body of the refusal the cluster view calls
\* for, None when the request may go on to schedule_reinitialize()
ReinitializeRefusal(cluster) ==
    IF cluster.leader = None THEN B_no_leader
    ELSE IF cluster.leader = ThisNode THEN B_i_am_leader
    ELSE None

\* a handler that reports success whatever schedule_reinitialize() returned
ReinitializeAnswer_always_scheduled(action) ==
    Response(200, HtmlHeaders, B_reinit_scheduled)

\* do_POST_reinitialize: the response to what schedule_reinitialize() returned
ReinitializeAnswer(action) ==
    IF action # None
    THEN Response(503, HtmlHeaders, action \o B_already)
    ELSE Response(200, HtmlHeaders, B_reinit_scheduled)

\* do_POST_reinitialize (the wrapped method)
do_POST_reinitialize(t) ==
    /\ pc[t] = "authorized"
    /\ HandlerOf(t) = N_do_POST_reinitialize
    /\ \/ /\ Return(t, <<>>, << CallRaised("get_cluster") >>, "Exception")
          /\ UNCHANGED scheduled_action
       \/ \E cluster \in ClusterViews :
             LET seen == << Call("get_cluster", cluster) >>
             IN  IF ReinitializeRefusal(cluster) # None
                 THEN /\ Return(t, << Response(503, HtmlHeaders,
                                               ReinitializeRefusal(cluster)) >>,
                                seen, NoException)
                      /\ UNCHANGED scheduled_action
                 ELSE \/ /\ Return(t, <<>>,
                                   seen \o << CallRaised("schedule_reinitialize") >>,
                                   "Exception")
                         /\ UNCHANGED scheduled_action
                      \/ /\ scheduled_action' = IF scheduled_action = None
                                                THEN A_reinitialize
                                                ELSE scheduled_action
                         /\ Return(t, << ReinitializeAnswer(scheduled_action) >>,
                                   seen \o << Call("schedule_reinitialize",
                                                   scheduled_action) >>,
                                   NoException)
    /\ UNCHANGED << server_vars, pg_role, pg_state, req, command, auth, attempts >>

\* the connection is closed and the thread takes the next one
finish(t) ==
    /\ pc[t] = "done"
    /\ pc' = [pc EXCEPT ![t] = "idle"]
    /\ req' = [req EXCEPT ![t] = NoRequest]
    /\ command' = [command EXCEPT ![t] = None]
    /\ auth' = [auth EXCEPT ![t] = Unchecked]
    /\ attempts' = [attempts EXCEPT ![t] = 0]
    /\ calls' = [calls EXCEPT ![t] = <<>>]
    /\ resp' = [resp EXCEPT ![t] = <<>>]
    /\ exc' = [exc EXCEPT ![t] = NoException]
    /\ UNCHANGED << server_vars, node_vars >>

(* ------------------------------------------------------------------ *)
(* The collaborators, acting on their own.                             *)
(* ------------------------------------------------------------------ *)
\* the orchestrator's own loop schedules an action or completes the pending one
orchestrator_step ==
    /\ \E a \in {None} \cup Actions : a # scheduled_action /\ scheduled_action' = a
    /\ UNCHANGED << server_vars, pg_role, pg_state, pc, req, command, auth, attempts,
                    calls, resp, exc >>

\* the node is promoted, demoted, stopped or started
node_step ==
    /\ \/ \E r \in Roles : r # pg_role /\ pg_role' = r /\ UNCHANGED pg_state
       \/ \E st \in NodeStates : st # pg_state /\ pg_state' = st /\ UNCHANGED pg_role
    /\ UNCHANGED << server_vars, scheduled_action, pc, req, command, auth, attempts,
                    calls, resp, exc >>

\* One connection at a time, any request on it; what the requests of other
\* connections can change in the orchestrator is part of orchestrator_step.
Next ==
    \/ \E t \in {FirstThread} :
          \/ Receive(t, Requests)
          \/ parse_request(t)
          \/ send_error_501(t)
          \/ check_auth(t)
          \/ do_GET(t)
          \/ do_GET_patroni(t)
          \/ query(t)
          \/ retry_delay(t)
          \/ do_POST_restart(t)
          \/ restart(t)
          \/ do_POST_reinitialize(t)
          \/ finish(t)
    \/ orchestrator_step
    \/ node_step

Spec == Init /\ [][Next]_vars

(* ------------------------------------------------------------------ *)
(* The router on every request line of AllRequests.                    *)
(* ------------------------------------------------------------------ *)
\* a request of `offered` has just been read on the first thread
ReceivedFrom(offered) ==
    /\ pc = [t \in Threads |-> IF t = FirstThread THEN "received" ELSE "idle"]
    /\ \E r \in offered : req = [t \in Threads |-> IF t = FirstThread THEN r ELSE NoRequest]
    /\ command = [t \in Threads |-> None]
    /\ auth = [t \in Threads |-> Unchecked]
    /\ attempts = [t \in Threads |-> 0]
    /\ calls = [t \in Threads |-> <<>>]
    /\ resp = [t \in Threads |-> <<>>]
    /\ exc = [t \in Threads |-> NoException]

RouterInit ==
    /\ auth_config \in AuthConfigs
    /\ auth_key = InitAuthKey(auth_config)
    /\ scheduled_action = None
    /\ pg_role = R_master
    /\ pg_state = "running"
    /\ ReceivedFrom(AllRequests)

\* parse_request, then the lookup of handle_one_request
RouterNext ==
    \E t \in {FirstThread} :
       \/ parse_request(t)
       \/ send_error_501(t)
       \/ check_auth(t)
       \/ do_GET(t)
       \/ do_GET_patroni(t)

RouterSpec == RouterInit /\ [][RouterNext]_vars

(* ------------------------------------------------------------------ *)
(* The credential check on every configuration and header.             *)
(* ------------------------------------------------------------------ *)
AuthRequests == {Request(TRUE, M_POST, p, h) : p \in {P_restart, P_reinitialize}, h \in AllHeaders}

AuthInit ==
    /\ auth_config \in AllAuthConfigs
    /\ auth_key = InitAuthKey(auth_config)
    /\ scheduled_action \in {None, A_restart}
    /\ pg_role = R_master
    /\ pg_state = "running"
    /\ ReceivedFrom(AuthRequests)

AuthNext ==
    \E t \in {FirstThread} :
       \/ parse_request(t)
       \/ check_auth(t)
       \/ do_POST_restart(t)
       \/ restart(t)
       \/ do_POST_reinitialize(t)

AuthSpec == AuthInit /\ [][AuthNext]_vars

(* ------------------------------------------------------------------ *)
(* Probes and a restart on concurrent connections.                     *)
(* ------------------------------------------------------------------ *)
ConcRequests ==
    {Request(TRUE, M_GET, P_root, None), Request(TRUE, M_GET, P_master, None),
     Request(TRUE, M_POST, P_restart, BasicPrefix \o Credential(Sec_ab))}

ConcInit ==
    /\ auth_config = Sec_ab
    /\ auth_key = InitAuthKey(auth_config)
    /\ scheduled_action = None
    /\ pg_role \in Roles
    /\ pg_state \in NodeStates
    /\ IdleThreads

ConcNext ==
    \/ \E t \in Threads :
          \/ Receive(t, ConcRequests)
          \/ parse_request(t)
          \/ check_auth(t)
          \/ do_GET(t)
          \/ query(t)
          \/ do_POST_restart(t)
          \/ restart(t)
          \/ finish(t)
    \/ orchestrator_step
    \/ node_step

ConcSpec == ConcInit /\ [][ConcNext]_vars

(* ------------------------------------------------------------------ *)
(* Two connections, one of which takes the requests that can block: a  *)
(* status request with retries and a restart.  The node and the        *)
(* orchestrator do not act on their own here, so a pending restart is  *)
(* always the one granted to the first connection.                     *)
(* ------------------------------------------------------------------ *)
BlockRequests(t) ==
    IF t = FirstThread
    THEN {Request(TRUE, M_GET, P_patroni, None),
          Request(TRUE, M_POST, P_restart, BasicPrefix \o Credential(Sec_ab))}
    ELSE {Request(TRUE, M_GET, P_master, None),
          Request(TRUE, M_POST, P_restart, BasicPrefix \o Credential(Sec_ab))}

\* one step of the thread serving connection t
ThreadStep(t) ==
    \/ Receive(t, BlockRequests(t))
    \/ parse_request(t)
    \/ check_auth(t)
    \/ do_GET(t)
    \/ do_GET_patroni(t)
    \/ query(t)
    \/ retry_delay(t)
    \/ do_POST_restart(t)
    \/ restart(t)
    \/ finish(t)

BlockNext ==
    \E t \in Threads :
       \/ Receive(t, BlockRequests(t))
       \/ parse_request(t)
       \/ check_auth(t)
       \/ do_GET(t)
       \/ do_GET_patroni(t)
       \/ query(t)
       \/ retry_delay(t)
       \/ do_POST_restart(t)
       \/ restart(t)
       \/ finish(t)

BlockSpec == ConcInit /\ [][BlockNext]_vars

\* the threads of the other connections are scheduled; the first
\* connection may stay where it is for ever
BlockFairSpec ==
    BlockSpec /\ \A t \in Threads \ {FirstThread} : WF_vars(ThreadStep(t))

(* ------------------------------------------------------------------ *)
(* Properties.                                                         *)
(* ------------------------------------------------------------------ *)
OpsOf(t) == {calls[t][i].op : i \in 1..Len(calls[t])}
HasCall(t, op) == op \in OpsOf(t)
CountCalls(t, op) == Cardinality({i \in 1..Len(calls[t]) : calls[t][i].op = op})
GuardedOps == {"schedule_restart", "restart", "get_cluster", "schedule_reinitialize"}
Codes(t) == [i \in 1..Len(resp[t]) |-> resp[t][i].code]

\* C1: no guarded orchestrator call is made for a request unless the
\* credential check of that request returned Ok before; a request whose check
\* gave a challenge is answered 401 with a WWW-Authenticate header and has made
\* no call at all, whatever method token and path brought it to the handler.
C1_NoGuardedCallWithoutAuth ==
    \A t \in Threads :
       /\ (OpsOf(t) \cap GuardedOps # {}) => auth[t] = None
       /\ pc[t] \in {"authorized", "restart"} => auth[t] = None
       /\ (auth[t] # Unchecked /\ auth[t] # None) =>
             /\ pc[t] = "done"
             /\ calls[t] = <<>>
             /\ Len(resp[t]) = 1
             /\ resp[t][1].code = 401
             /\ \E h \in resp[t][1].headers : h[1] = "WWW-Authenticate"
             /\ resp[t][1].body = auth[t]

\* a request with the method token POST_restart and no credentials was challenged
C1_Witness ==
    \E t \in Threads :
       /\ pc[t] = "done"
       /\ req[t].command = M_POST_restart
       /\ HandlerOf(t) = N_do_POST_restart
       /\ auth[t] = B_no_auth_header
       /\ Codes(t) = << 401 >>

\* C2: with no 'auth' in the configuration the check returns Ok for every
\* header (absent, malformed, any credential), and POST /restart and
\* POST /reinitialize go on to their handlers without a challenge.
C2_NoSecretAlwaysOk ==
    auth_config = None =>
       /\ \A h \in AllHeaders : Server_check_auth_header(h) = None
       /\ \A t \in Threads :
             /\ auth[t] \in {Unchecked, None}
             /\ pc[t] \notin {"idle", "received", "parsed"} =>
                   /\ auth[t] = None
                   /\ \A i \in 1..Len(resp[t]) : resp[t][i].code # 401
                   /\ pc[t] = "done" => OpsOf(t) \cap GuardedOps # {}

\* without a secret, a POST /restart with a malformed header restarted the node
C2_Witness ==
    \E t \in Threads :
       /\ auth_config = None
       /\ pc[t] = "done"
       /\ req[t].path = P_restart
       /\ req[t].header = BasicNoSpace
       /\ HasCall(t, "restart")
       /\ Codes(t) = << 200 >>

\* what the credential check is to return for a configured secret
ExpectedAuth(secret, header) ==
    IF header = None THEN B_no_auth_header
    ELSE IF header = BasicPrefix \o Credential(secret) THEN None
    ELSE B_not_authenticated

\* C3: with any configured value of 'auth' (the empty one included) the check
\* gives "no auth header received" for an absent header, "not authenticated"
\* for a header that is not "Basic " followed by the encoded secret, and Ok
\* only for exactly that header.
C3_ConfiguredSecretChecked ==
    auth_config # None =>
       \A t \in Threads : auth[t] # Unchecked => auth[t] = ExpectedAuth(auth_config, req[t].header)

\* the first non-empty segment of a path cut at its slashes (<<>> if none)
FirstNonEmptySegment(path) ==
    LET chars == {i \in 1..Len(path) : path[i] # "/"}
    IN  IF chars = {} THEN <<>>
        ELSE LET a == CHOOSE i \in chars : \A j \in chars : i <= j
                 ends == {j \in a..Len(path) : path[j] = "/"}
                 b == IF ends = {} THEN Len(path)
                      ELSE (CHOOSE j \in ends : \A k \in ends : j <= k) - 1
             IN  SubSeq(path, a, b)

\* the handler registered for the method and the first segment if there is
\* one, else the method's own handler, else None (nothing is implemented)
ExpectedHandler(method, path) ==
    LET seg == FirstNonEmptySegment(path)
        keyed == DoPrefix \o method \o <<"_">> \o seg
        default == DoPrefix \o method
    IN  IF seg # <<>> /\ keyed \in HandlerNames THEN keyed
        ELSE IF default \in HandlerNames THEN default
        ELSE None

\* C4: a parsed request is handed to the handler registered for its method and
\* first non-empty path segment if there is one, otherwise to the method's
\* default handler, and to the base class's 501 answer if the method has none;
\* no other handler is looked up or started.
C4_RouterSelectsRegisteredHandler ==
    \A t \in Threads :
       (pc[t] \notin {"idle", "received"} /\ req[t].valid) =>
          LET e == ExpectedHandler(req[t].command, req[t].path)
          IN  IF e = None
              THEN /\ HandlerOf(t) \notin HandlerNames
                   /\ auth[t] = Unchecked
                   /\ pc[t] \in {"parsed", "done"}
                   /\ pc[t] = "done" => (Codes(t) = << 501 >> /\ calls[t] = <<>>)
              ELSE /\ HandlerOf(t) = e
                   /\ pc[t] \in {"query", "sleep"} => e \in {N_do_GET, N_do_GET_patroni}
                   /\ (auth[t] # Unchecked \/ pc[t] \in {"authorized", "restart"}) =>
                         e \in GuardedHandlers
                   /\ Codes(t) # << 501 >>

\* POST /restart/now was routed to do_POST_restart and reached its credential check
C4_Witness ==
    \E t \in Threads :
       /\ req[t].command = M_POST
       /\ req[t].path = P_restart_sub
       /\ command[t] = M_POST_restart
       /\ auth[t] # Unchecked

\* the results of the tries of the server's query primitive, in order
QueryResults(t) ==
    LET made == SelectSeq(calls[t], LAMBDA c : c.op = "server.query")
    IN  [i \in 1..Len(made) |-> made[i].ret]
LastQuery(t) == QueryResults(t)[Len(QueryResults(t))]
QueryFailures == {"psycopg2.Error", "PostgresConnectionException"}

\* the orchestrator or the node answered the call `op` with `value`
Reported(t, op, value) ==
    \E i \in 1..Len(calls[t]) :
       calls[t][i].op = op /\ ~calls[t][i].raised /\ calls[t][i].ret = value

\* a request answered by do_GET on one of `paths`, and what it was answered
ProbeAnswered(t, paths) ==
    /\ pc[t] = "done"
    /\ req[t].command = M_GET
    /\ req[t].path \in paths
    /\ HandlerOf(t) = N_do_GET
    /\ resp[t] # <<>>
StatusBody(t) == resp[t][1].body.json
RecordRole(rec) == IF "role" \in DOMAIN rec THEN rec.role ELSE None

\* C5: GET / and GET /master answer 200 exactly when the record's role is
\* master, or the orchestrator reported a scheduled restart and the node's own
\* role is master; otherwise 503; and two such probes that saw the same state
\* get the same code whichever of the two paths they used.
C5_MasterProbeCode ==
    /\ \A t \in Threads :
          ProbeAnswered(t, {P_root, P_master}) =>
             /\ Len(resp[t]) = 1
             /\ resp[t][1].code \in {200, 503}
             /\ resp[t][1].code = 200 <=>
                   \/ RecordRole(StatusBody(t)) = R_master
                   \/ /\ Reported(t, "restart_scheduled", TRUE)
                      /\ Reported(t, "postgresql.role", R_master)
    /\ \A t, u \in Threads :
          (/\ ProbeAnswered(t, {P_root})
           /\ ProbeAnswered(u, {P_master})
           /\ StatusBody(t) = StatusBody(u)
           /\ calls[t] = calls[u]) => resp[t][1].code = resp[u][1].code

\* GET / got 200 from the override alone (its query had failed) while a GET
\* /master probe in the same state got 200 as well
C5_Witness ==
    \E t, u \in Threads :
       /\ ProbeAnswered(t, {P_root})
       /\ ProbeAnswered(u, {P_master})
       /\ DOMAIN StatusBody(t) = {"state"}
       /\ calls[t] = calls[u]
       /\ Reported(t, "restart_scheduled", TRUE)
       /\ resp[t][1].code = 200
       /\ resp[u][1].code = 200

\* C6: GET /replica answers 200 exactly when the record's role is replica, and
\* 503 otherwise, also while a restart is scheduled on a master node.
C6_ReplicaProbeCode ==
    \A t \in Threads :
       ProbeAnswered(t, {P_replica}) =>
          /\ Len(resp[t]) = 1
          /\ resp[t][1].code \in {200, 503}
          /\ resp[t][1].code = 200 <=> RecordRole(StatusBody(t)) = R_replica

\* GET /replica got 503 while a restart was scheduled on a master node
C6_Witness ==
    \E t \in Threads :
       /\ ProbeAnswered(t, {P_replica})
       /\ Reported(t, "restart_scheduled", TRUE)
       /\ Reported(t, "postgresql.role", R_master)
       /\ resp[t][1].code = 503

\* a finished request of one of the two status handlers
StatusRequestDone(t, handlers) ==
    /\ pc[t] = "done"
    /\ HandlerOf(t) \in handlers
    /\ QueryResults(t) # <<>>

\* C7: GET /patroni is answered 200 with the status record as its body whether
\* the query returned a row, was rejected, or failed with connection problems
\* on every try until the retrier gave up.
C7_PatroniAlways200 ==
    \A t \in Threads :
       (/\ StatusRequestDone(t, {N_do_GET_patroni})
        /\ LastQuery(t).raised \in QueryFailures \cup {NoException}) =>
          /\ exc[t] = NoException
          /\ Len(resp[t]) = 1
          /\ resp[t][1].code = 200
          /\ resp[t][1].headers = JsonHeaders
          /\ "state" \in DOMAIN StatusBody(t)
          /\ Reported(t, "postgresql.state", StatusBody(t).state)
          /\ ("role" \in DOMAIN StatusBody(t)) <=> (LastQuery(t).raised = NoException)

\* GET /patroni on a replica answered 200 after every try had failed with
\* connection problems
C7_Witness ==
    \E t \in Threads :
       /\ StatusRequestDone(t, {N_do_GET_patroni})
       /\ pg_role = R_replica
       /\ Len(QueryResults(t)) = MaxTries
       /\ \A i \in 1..MaxTries : QueryResults(t)[i].raised = "PostgresConnectionException"
       /\ Codes(t) = << 200 >>

\* C8: when the query fails with a data-source error, with connection problems
\* or by exhausting the retries, get_postgresql_status raises nothing: the
\* handler goes on with a record whose only key is state, holding the node's
\* own state, and no exception of the query escapes the handler.
C8_StatusDegradesOnFailure ==
    \A t \in Threads :
       (/\ StatusRequestDone(t, {N_do_GET, N_do_GET_patroni})
        /\ LastQuery(t).raised \in QueryFailures) =>
          /\ exc[t] \notin QueryFailures \cup {"RetryFailedError"}
          /\ HasCall(t, "postgresql.state")
          /\ resp[t] # <<>> =>
                /\ DOMAIN StatusBody(t) = {"state"}
                /\ Reported(t, "postgresql.state", StatusBody(t).state)
                /\ resp[t][1].code \in {200, 503}

\* a probe of a stopped node whose query was rejected got the record
\* {state: stopped} with 503
C8_Witness ==
    \E t \in Threads :
       /\ StatusRequestDone(t, {N_do_GET})
       /\ LastQuery(t).raised = "psycopg2.Error"
       /\ Codes(t) = << 503 >>
       /\ StatusBody(t) = [state |-> "stopped"]

\* C9: a status record is only {state}, or the master's record (role master,
\* xlog holding just the reported write location), or the replica's record
\* (role replica, xlog holding just the reported received and replayed
\* locations and the paused flag); it is the master's exactly when the query
\* reported that the node is not in recovery.
C9_RecordShapes ==
    \A t \in Threads :
       (StatusRequestDone(t, {N_do_GET, N_do_GET_patroni}) /\ resp[t] # <<>>) =>
          LET rec == StatusBody(t)
              q == LastQuery(t)
              full == {"state", "postmaster_start_time", "role", "xlog"}
          IN  /\ Reported(t, "postgresql.state", rec.state)
              /\ IF q.raised # NoException
                 THEN DOMAIN rec = {"state"}
                 ELSE /\ DOMAIN rec = full
                      /\ rec.postmaster_start_time = q.row[1]
                      /\ rec.role = R_master <=> ~q.row[2]
                      /\ rec.role = R_replica <=> q.row[2]
                      /\ IF q.row[2]
                         THEN /\ DOMAIN rec.xlog = {"received_location", "replayed_location",
                                                    "paused"}
                              /\ rec.xlog.received_location = q.row[4]
                              /\ rec.xlog.replayed_location = q.row[5]
                              /\ rec.xlog.paused = q.row[6]
                         ELSE /\ DOMAIN rec.xlog = {"location"}
                              /\ rec.xlog.location = q.row[3]

\* a master's record with its write location was sent
C9_Witness ==
    \E t \in Threads :
       /\ StatusRequestDone(t, {N_do_GET, N_do_GET_patroni})
       /\ resp[t] # <<>>
       /\ LastQuery(t).raised = NoException
       /\ StatusBody(t).role = R_master
       /\ StatusBody(t).xlog = [location |-> "0/3000148"]

B_restart_already_in_progress ==
    <<"r", "e", "s", "t", "a", "r", "t", " ", "a", "l", "r", "e", "a", "d", "y", " ",
      "i", "n", " ", "p", "r", "o", "g", "r", "e", "s", "s">>

\* the action schedule_restart reported as pending to this request, if any
PendingReported(t) ==
    {calls[t][i].ret : i \in {j \in 1..Len(calls[t]) :
         /\ calls[t][j].op = "schedule_restart"
         /\ ~calls[t][j].raised
         /\ calls[t][j].ret # None}}

\* C10: an authenticated POST /restart for which schedule_restart reported a
\* pending action A is answered 503 with the body "A already in progress"
\* and never calls restart().
C10_PendingActionBlocksRestart ==
    \A t \in Threads :
       \A a \in PendingReported(t) :
          /\ auth[t] = None
          /\ pc[t] = "done"
          /\ exc[t] = NoException
          /\ ~HasCall(t, "restart")
          /\ Len(resp[t]) = 1
          /\ resp[t][1].code = 503
          /\ resp[t][1].body = a \o B_already
          /\ a = A_restart => resp[t][1].body = B_restart_already_in_progress

\* an authenticated POST /restart met a pending restart
C10_Witness ==
    \E t \in Threads :
       /\ req[t].path = P_restart
       /\ req[t].header = BasicPrefix \o Credential(Sec_ab)
       /\ auth_config = Sec_ab
       /\ PendingReported(t) = {A_restart}
       /\ Codes(t) = << 503 >>

\* schedule_restart told this request that no action was pending
RestartGranted(t) == Reported(t, "schedule_restart", None)

\* C11: an authenticated POST /restart for which schedule_restart reported
\* no pending action calls restart() exactly once; it is answered 200 with
\* the success message exactly when restart() returned true, and 503 with
\* the failure message when restart() returned false or raised; the
\* exception does not leave the handler and the response is sent anyway.
C11_RestartOutcome ==
    \A t \in Threads :
       RestartGranted(t) =>
          /\ auth[t] = None
          /\ pc[t] \in {"restart", "done"}
          /\ pc[t] = "restart" => CountCalls(t, "restart") = 0 /\ resp[t] = <<>>
          /\ pc[t] = "done" =>
                /\ CountCalls(t, "restart") = 1
                /\ exc[t] = NoException
                /\ Len(resp[t]) = 1
                /\ resp[t][1].code \in {200, 503}
                /\ resp[t][1].code = 200 <=> Reported(t, "restart", TRUE)
                /\ resp[t][1].code = 200 => resp[t][1].body = B_restarted
                /\ resp[t][1].code = 503 => resp[t][1].body = B_restart_failed

\* restart() raised inside a granted restart and the request was answered 503
C11_Witness ==
    \E t \in Threads :
       /\ RestartGranted(t)
       /\ pc[t] = "done"
       /\ \E i \in 1..Len(calls[t]) : calls[t][i].op = "restart" /\ calls[t][i].raised
       /\ Codes(t) = << 503 >>
       /\ resp[t][1].body = B_restart_failed

\* the cluster views get_cluster() handed to this request
ClustersSeen(t) ==
    {calls[t][i].ret : i \in {j \in 1..Len(calls[t]) :
         calls[t][j].op = "get_cluster" /\ ~calls[t][j].raised}}

\* C12: an authenticated POST /reinitialize whose cluster view is unlocked
\* (no leader) or names this node as the leader never calls
\* schedule_reinitialize(); it is answered 503 with the body saying that the
\* cluster has no leader, respectively that this node is the leader.
C12_NoReinitializeWithoutOtherLeader ==
    \A t \in Threads :
       \A cluster \in ClustersSeen(t) :
          cluster.leader \in {None, ThisNode} =>
             /\ auth[t] = None
             /\ pc[t] = "done"
             /\ ~HasCall(t, "schedule_reinitialize")
             /\ Codes(t) = << 503 >>
             /\ cluster.leader = None => resp[t][1].body = B_no_leader
             /\ cluster.leader = ThisNode => resp[t][1].body = B_i_am_leader

\* a reinitialize request on the leader itself was refused
C12_Witness ==
    \E t \in Threads :
       /\ req[t].path = P_reinitialize
       /\ ClustersSeen(t) = {[leader |-> ThisNode]}
       /\ Codes(t) = << 503 >>
       /\ resp[t][1].body = B_i_am_leader

\* what schedule_reinitialize() returned to this request
ReinitializeReturned(t) ==
    {calls[t][i].ret : i \in {j \in 1..Len(calls[t]) :
         calls[t][j].op = "schedule_reinitialize" /\ ~calls[t][j].raised}}

\* C13: an authenticated POST /reinitialize whose cluster view names another
\* node as the leader calls schedule_reinitialize() exactly once; when the
\* call returns none the answer is 200, when it returns a pending action A
\* the answer is 503 with the body "A already in progress", and a returned
\* call has no other answer.
C13_ReinitializeScheduledOrPending ==
    \A t \in Threads :
       [leader |-> OtherNode] \in ClustersSeen(t) =>
          /\ auth[t] = None
          /\ pc[t] = "done"
          /\ CountCalls(t, "get_cluster") = 1
          /\ CountCalls(t, "schedule_reinitialize") = 1
          /\ \A a \in ReinitializeReturned(t) :
                /\ exc[t] = NoException
                /\ Len(resp[t]) = 1
                /\ resp[t][1].code \in {200, 503}
                /\ resp[t][1].code = 200 <=> a = None
                /\ a = None => resp[t][1].body = B_reinit_scheduled
                /\ a # None => resp[t][1].body = a \o B_already

\* a reinitialize request on a follower met a pending restart
C13_Witness ==
    \E t \in Threads :
       /\ req[t].path = P_reinitialize
       /\ ClustersSeen(t) = {[leader |-> OtherNode]}
       /\ ReinitializeReturned(t) = {A_restart}
       /\ Codes(t) = << 503 >>
       /\ resp[t][1].body = A_restart \o B_already

\* a reinitialize request on a follower was scheduled
C13_Scheduled ==
    \E t \in Threads :
       /\ ClustersSeen(t) = {[leader |-> OtherNode]}
       /\ ReinitializeReturned(t) = {None}
       /\ Codes(t) = << 200 >>

\* the request is one of the six defined routes
OnDefinedRoute(t) ==
    /\ req[t] # NoRequest
    /\ req[t].valid
    /\ \/ req[t].command = M_GET /\ req[t].path \in {P_root, P_master, P_replica, P_patroni}
       \/ req[t].command = M_POST /\ req[t].path \in {P_restart, P_reinitialize}

\* the data source failed with something that is no data-source error
UnexpectedQueryFailure(t) ==
    /\ QueryResults(t) # <<>>
    /\ LastQuery(t).raised = "Exception"

\* an orchestrator call other than restart() raised
OrchestratorCallRaised(t) ==
    \E i \in 1..Len(calls[t]) :
       /\ calls[t][i].raised
       /\ calls[t][i].op \in {"schedule_restart", "get_cluster",
                               "schedule_reinitialize", "restart_scheduled"}

\* C14: no handler of a defined route ends without having sent a response
\* with a status code and a body, whether the data source fails, the
\* retries are exhausted, or a call of the orchestrator (schedule_restart,
\* restart, get_cluster, schedule_reinitialize, restart_scheduled) raises.
C14_EveryHandlerResponds ==
    \A t \in Threads :
       (pc[t] = "done" /\ OnDefinedRoute(t) /\ ~UnexpectedQueryFailure(t)) =>
          /\ resp[t] # <<>>
          /\ resp[t][1].code \in {200, 401, 503}
          /\ resp[t][1].body # <<>>

\* the handlers that end without a response are those in which an
\* orchestrator call outside the try block raised
C14_SilentOnlyWhenOrchestratorRaised ==
    \A t \in Threads :
       (pc[t] = "done" /\ OnDefinedRoute(t) /\ ~UnexpectedQueryFailure(t)
          /\ ~OrchestratorCallRaised(t)) =>
          /\ resp[t] # <<>>
          /\ exc[t] = NoException

\* how RestApiHandler.query ended for this request, if it has ended
QueryEnded(t) ==
    {calls[t][i].ret : i \in {j \in 1..Len(calls[t]) : calls[t][j].op = "query"}}

\* the state part of C15: how many tries there are and how they ended
C15_TriesInOrder ==
    \A t \in Threads :
       LET tries == QueryResults(t)
           n == Len(tries)
       IN  /\ n <= MaxTries
           /\ \A i \in 1..(n - 1) : tries[i].raised = "PostgresConnectionException"
           /\ n > 0 => HandlerOf(t) \in {N_do_GET, N_do_GET_patroni}
           /\ (n > 0 /\ HandlerOf(t) = N_do_GET) =>
                 n = 1 /\ pc[t] = "done" /\ QueryEnded(t) = {tries[1].raised}
           /\ (pc[t] = "done" /\ HandlerOf(t) = N_do_GET /\ req[t].valid) => n = 1
           /\ pc[t] = "sleep" =>
                 /\ HandlerOf(t) = N_do_GET_patroni
                 /\ n > 0 /\ n < MaxTries
                 /\ tries[n].raised = "PostgresConnectionException"
           /\ pc[t] \in {"query", "sleep"} => attempts[t] = n /\ QueryEnded(t) = {}
           /\ \A e \in QueryEnded(t) :
                 /\ n > 0 /\ pc[t] = "done"
                 /\ e = "RetryFailedError" <=>
                       /\ HandlerOf(t) = N_do_GET_patroni
                       /\ n = MaxTries
                       /\ tries[n].raised = "PostgresConnectionException"
                 /\ e # "RetryFailedError" => e = tries[n].raised

\* the step part of C15: a try that is not the first one is made only
\* from the state the retry delay leads to, and the delay is entered only
\* by a try that failed
C15_DelayBeforeRetry ==
    \A t \in Threads :
       /\ (pc'[t] = "query" /\ pc[t] # "query") =>
             /\ pc[t] \in {"parsed", "sleep"}
             /\ pc[t] = "sleep" <=> QueryResults(t) # <<>>
       /\ (pc'[t] = "sleep" /\ pc[t] # "sleep") =>
             /\ pc[t] = "query"
             /\ Len(QueryResults(t))' = Len(QueryResults(t)) + 1
       /\ Len(QueryResults(t))' > Len(QueryResults(t)) => pc[t] = "query"

\* C15: a status request without retry calls the server's query primitive
\* exactly once; with retry the primitive is called again only after a
\* connection-unavailable failure and after the retry delay; any other
\* error ends the querying at once with that same error; the number of
\* tries is bounded and the querying ends in the retry-exhausted failure
\* exactly when every try was connection-unavailable.
C15_RetryDiscipline == []C15_TriesInOrder /\ [][C15_DelayBeforeRetry]_vars

\* a /patroni request used up its tries and ended retry-exhausted
C15_Witness ==
    \E t \in Threads :
       /\ HandlerOf(t) = N_do_GET_patroni
       /\ pc[t] = "done"
       /\ Len(QueryResults(t)) = MaxTries
       /\ QueryEnded(t) = {"RetryFailedError"}
       /\ Codes(t) = << 200 >>

\* a /patroni request succeeded on a try made after the delay
C15_RetriedThenServed ==
    \E t \in Threads :
       /\ HandlerOf(t) = N_do_GET_patroni
       /\ Len(QueryResults(t)) > 1
       /\ QueryEnded(t) = {NoException}

\* the calls of the server's query primitive this request made that met a
\* data-source error
FailedQueryCalls(t) ==
    {calls[t][i] : i \in {j \in 1..Len(calls[t]) :
         /\ calls[t][j].op = "server.query"
         /\ calls[t][j].outcome.kind = "psycopg2.Error"}}

\* C16 as stated: on a data-source error the server's query primitive
\* raises connection-unavailable if the connection is already closed and
\* otherwise re-raises the original error, wherever the error arose:
\* while obtaining the connection or the cursor, while executing, or while
\* reading rows.
C16_ReclassifiedByClosedOnly ==
    \A t \in Threads :
       \A c \in FailedQueryCalls(t) :
          c.ret.raised = IF c.outcome.closed THEN "PostgresConnectionException"
                                             ELSE "psycopg2.Error"

\* C16 amended: a data-source error that arose while executing or while
\* reading rows is re-raised unchanged if the connection is still open and
\* becomes connection-unavailable if the connection is closed; an error
\* that arose while obtaining the connection or the cursor becomes
\* connection-unavailable whether the connection is closed or not.
C16_ReclassifiedByCursorAndClosed ==
    \A t \in Threads :
       \A c \in FailedQueryCalls(t) :
          /\ c.outcome.stage \in {"execute", "fetch"} =>
                c.ret.raised = IF c.outcome.closed THEN "PostgresConnectionException"
                                                   ELSE "psycopg2.Error"
          /\ c.outcome.stage \in {"connection", "cursor"} =>
                c.ret.raised = "PostgresConnectionException"

\* obtaining the cursor failed on an open connection and the request saw
\* connection-unavailable
C16_Witness ==
    \E t \in Threads :
       \E c \in FailedQueryCalls(t) :
          /\ c.outcome.stage = "cursor"
          /\ ~c.outcome.closed
          /\ c.ret.raised = "PostgresConnectionException"
          /\ pc[t] = "done"

\* a restart granted to a POST /restart on another connection is in
\* progress on a node whose own role is master, and the orchestrator
\* reports it as scheduled
RestartInProgressBeside(t) ==
    /\ scheduled_action = A_restart
    /\ pg_role = R_master
    /\ \E u \in Threads \ {t} : pc[u] = "restart" /\ RestartGranted(u)

\* this step ends a GET / or GET /master probe whose collaborators did
\* what the claim allows: the query returned rows or a data-source error,
\* and restart_scheduled() answered
MasterProbeEnds(t) ==
    /\ pc[t] = "query"
    /\ pc'[t] = "done"
    /\ HandlerOf(t) = N_do_GET
    /\ req[t].command = M_GET
    /\ req[t].path \in {P_root, P_master}
    /\ \A i \in 1..Len(calls'[t]) :
          /\ ~calls'[t][i].raised
          /\ calls'[t][i].op = "server.query" => calls'[t][i].ret.raised # "Exception"

\* C17: while a restart triggered by POST /restart is in progress on a node
\* whose own role is master and the orchestrator reports the restart as
\* scheduled, a GET / or GET /master probe handled on another connection is
\* answered 200, whether its query returned a master row, a replica row or
\* failed.
C17_ProbesStay200DuringRestart ==
    [][\A t \in Threads :
          (RestartInProgressBeside(t) /\ MasterProbeEnds(t)) =>
             /\ Len(resp'[t]) = 1
             /\ resp'[t][1].code = 200
             /\ exc'[t] = NoException]_vars

\* a probe of / whose query failed was answered 200 beside a restart that
\* is still in progress
C17_Witness ==
    \E t \in Threads :
       /\ RestartInProgressBeside(t)
       /\ ProbeAnswered(t, {P_root})
       /\ LastQuery(t).raised \in QueryFailures
       /\ Reported(t, "restart_scheduled", TRUE)
       /\ Reported(t, "postgresql.role", R_master)
       /\ Codes(t) = << 200 >>

\* a probe of /master that found the node following was answered 200
\* beside a restart that is still in progress
C17_FollowingRow ==
    \E t \in Threads :
       /\ RestartInProgressBeside(t)
       /\ ProbeAnswered(t, {P_master})
       /\ LastQuery(t).raised = NoException
       /\ StatusBody(t).role = R_replica
       /\ Codes(t) = << 200 >>

\* the places where a request waits: before a try of the status query
\* (on the data source), in the retry delay, inside ha.restart()
BlockedAt == {"query", "sleep", "restart"}

\* where a blocked request is, every other connection can take a step and
\* an idle one can take the next request
OthersEnabled ==
    \A u \in Threads :
       pc[u] \in BlockedAt =>
          \A t \in Threads \ {u} :
             /\ ENABLED ThreadStep(t)
             /\ pc[t] = "idle" => ENABLED Receive(t, BlockRequests(t))

\* C18: a request that is blocked (in the retry delay, waiting on the data
\* source, or inside a slow restart()) blocks only its own connection: on
\* every other connection the next request is accepted, and a request
\* received there gets to its end even if the first connection never
\* moves again.
C18_OtherConnectionsProceed ==
    /\ []OthersEnabled
    /\ \A t \in Threads \ {FirstThread} : (pc[t] = "received") ~> (pc[t] = "done")

\* while the first connection is inside restart(), a probe on the other
\* connection was answered and saw the restart as scheduled
C18_Witness ==
    \E u \in Threads :
       \E t \in Threads \ {u} :
          /\ pc[u] = "restart"
          /\ RestartGranted(u)
          /\ ProbeAnswered(t, {P_master})
          /\ Reported(t, "restart_scheduled", TRUE)

\* while the first connection is in its retry delay, a request on the
\* other connection has been answered
C18_ServedBesideDelay ==
    \E u \in Threads :
       \E t \in Threads \ {u} :
          /\ pc[u] = "sleep"
          /\ pc[t] = "done"
          /\ Len(resp[t]) = 1

\* the calls of the server's query primitive this request has finished
FinishedQueryCalls(t) ==
    {calls[t][i] : i \in {j \in 1..Len(calls[t]) : calls[t][j].op = "server.query"}}

C20_ExactlyOneResponse ==
    \A t \in Threads :
       /\ Len(resp[t]) <= 1
       /\ 401 \in {resp[t][i].code : i \in 1..Len(resp[t])} =>
             Codes(t) = << 401 >> /\ calls[t] = <<>>
       /\ (pc[t] = "done" /\ OnDefinedRoute(t) /\ ~UnexpectedQueryFailure(t)) =>
             Len(resp[t]) = 1

\* the part of C20 that does not depend on the orchestrator: never more
\* than one status line, and nothing after a 401 challenge
C20_AtMostOneResponse ==
    \A t \in Threads :
       /\ Len(resp[t]) <= 1
       /\ 401 \in {resp[t][i].code : i \in 1..Len(resp[t])} =>
             Codes(t) = << 401 >> /\ calls[t] = <<>>
       /\ (pc[t] = "done" /\ OnDefinedRoute(t) /\ ~UnexpectedQueryFailure(t)
             /\ ~OrchestratorCallRaised(t)) => Len(resp[t]) = 1

====
